---- MODULE Spec2Model ----
(***************************************************************************)
(* A model of src/main.py (Akwam scraper API): the sliding-window rate     *)
(* limiter check_rate_limit, the /watch resolver watch_video with its      *)
(* pattern-based extractors, and the listing extractor parse_grid /        *)
(* fetch_page.                                                             *)
(*                                                                         *)
(* Four specifications share the module:                                   *)
(*   SpecRate    - check_rate_limit called by one caller at a time         *)
(*   SpecThreads - check_rate_limit called from several threads, at the    *)
(*                 granularity of the lock                                 *)
(*   SpecWatch   - watch_video                                             *)
(*   SpecGrid    - fetch_page / parse_grid                                 *)
(***************************************************************************)
EXTENDS Integers, Sequences, FiniteSets, TLC

VARIABLES
    now,                 \* the wall clock read by time.time()
    rate_limit_storage,  \* main.py:32  ip -> list of request times
    rl_log,              \* history: the check_rate_limit calls made so far (SpecRate)
    rate_limit_lock,     \* main.py:33  "free" or the thread holding it
    thr,                 \* per thread: position in check_rate_limit, ip, current_time
    thr_calls,           \* history: number of calls started by threads
    admitted,            \* history: admitted requests (SpecThreads)
    w_pc,                \* watch_video: "idle", "fetch1", "fetch2" or "done"
    w_url,               \* watch_video: url after fix_url (main.py:389)
    w_first,             \* watch_video: the first response (resp, main.py:393)
    w_final_url,         \* watch_video: final_url (main.py:408)
    w_referer,           \* watch_video: the scraper's Referer header (main.py:70, 409)
    w_fetches,           \* history: the scraper.get calls of the current request
    w_searched,          \* history: find_redirect_ultra_fast was called
    w_result,            \* watch_video: what the request ended with
    w_resolved,          \* history: urls an earlier request resolved with success
    w_cached,            \* history: the current url was in w_resolved at the call
    g_resp,              \* fetch_page: the response of scraper.get (main.py:162)
    g_result,            \* fetch_page: what the call returned or raised
    g_calls              \* history: number of fetch_page calls made

rateVars == <<now, rate_limit_storage, rl_log>>
thrVars == <<rate_limit_lock, thr, thr_calls, admitted>>
watchVars == <<w_pc, w_url, w_first, w_final_url, w_referer, w_fetches, w_searched, w_result,
               w_resolved, w_cached>>
gridVars == <<g_resp, g_result, g_calls>>
vars == <<now, rate_limit_storage, rl_log, rate_limit_lock, thr, thr_calls, admitted,
          w_pc, w_url, w_first, w_final_url, w_referer, w_fetches, w_searched, w_result,
          w_resolved, w_cached, g_resp, g_result, g_calls>>

(***************************************************************************)
(* Bounds and parameters                                                   *)
(***************************************************************************)
\* check_rate_limit's max_requests (default 30 in the code), scaled down
max_requests == 2
\* check_rate_limit's window (default 60 in the code), scaled down
window == 2
\* the clock stops advancing here
MaxTime == 4
\* number of check_rate_limit calls in a run of SpecRate
MaxCalls == 5
\* number of check_rate_limit calls started in a run of SpecThreads
MaxThreadCalls == 4

IPs == {"10.0.0.1", "10.0.0.2"}
Threads == {"T1", "T2"}

(***************************************************************************)
(* check_rate_limit (main.py:35-45)                                        *)
(***************************************************************************)
\* a plausible slip: an entry aged exactly `window` is kept
PruneKeepsBoundary(times, current_time) ==
    SelectSeq(times, LAMBDA req_time : current_time - req_time <= window)

\* main.py:38-41: keep the entries younger than the window
Prune(times, current_time) ==
    SelectSeq(times, LAMBDA req_time : current_time - req_time < window)

\* a plausible slip: the timestamp is recorded before the limit is compared
CheckRecordsDenied(storage, ip, current_time) ==
    LET pruned == Prune(storage[ip], current_time)
        rec    == Append(pruned, current_time)
    IN  IF Len(pruned) >= max_requests
        THEN [ok |-> FALSE, storage |-> [storage EXCEPT ![ip] = rec]]
        ELSE [ok |-> TRUE,  storage |-> [storage EXCEPT ![ip] = rec]]

\* main.py:37-45: the locked body, as a function of the map, the ip and the
\* time read at line 36; yields the return value and the new map
CheckBody(storage, ip, current_time) ==
    LET pruned == Prune(storage[ip], current_time)
    IN  IF Len(pruned) >= max_requests
        THEN [ok |-> FALSE, storage |-> [storage EXCEPT ![ip] = pruned]]
        ELSE [ok |-> TRUE,
              storage |-> [storage EXCEPT ![ip] = Append(pruned, current_time)]]

\* main.py:50-56: the middleware answers 429 itself or hands the request on
MiddlewareResponse(ok) == IF ok THEN "call_next" ELSE "429 Too many requests"

\* the clock advances (time.time() between calls)
Tick ==
    /\ now < MaxTime
    /\ now' = now + 1
    /\ UNCHANGED <<rate_limit_storage, rl_log, rate_limit_lock, thr, thr_calls, admitted>>
    /\ UNCHANGED <<watchVars, gridVars>>

\* main.py:35-45 run by one caller (the middleware, main.py:49-50): the time is
\* read and the locked body runs
check_rate_limit(ip) ==
    /\ Len(rl_log) < MaxCalls
    /\ LET r == CheckBody(rate_limit_storage, ip, now)
       IN  /\ rate_limit_storage' = r.storage
           /\ rl_log' = Append(rl_log, [ip |-> ip, t |-> now, ok |-> r.ok,
                                        response |-> MiddlewareResponse(r.ok),
                                        before |-> rate_limit_storage,
                                        after |-> r.storage])
    /\ UNCHANGED <<now, rate_limit_lock, thr, thr_calls, admitted>>
    /\ UNCHANGED <<watchVars, gridVars>>

(***************************************************************************)
(* check_rate_limit entered from several threads                           *)
(***************************************************************************)
\* main.py:36: current_time = time.time(), before the lock is taken
Enter(th, ip) ==
    /\ thr[th].pc = "idle"
    /\ thr_calls < MaxThreadCalls
    /\ thr' = [thr EXCEPT ![th] = [pc |-> "line37", ip |-> ip, current_time |-> now]]
    /\ thr_calls' = thr_calls + 1
    /\ UNCHANGED <<now, rate_limit_storage, rl_log, rate_limit_lock, admitted>>
    /\ UNCHANGED <<watchVars, gridVars>>

\* main.py:37: with rate_limit_lock
Acquire(th) ==
    /\ thr[th].pc = "line37"
    /\ rate_limit_lock = "free"
    /\ rate_limit_lock' = th
    /\ thr' = [thr EXCEPT ![th].pc = "line38"]
    /\ UNCHANGED <<now, rate_limit_storage, rl_log, thr_calls, admitted>>
    /\ UNCHANGED <<watchVars, gridVars>>

\* main.py:38-41
PruneStep(th) ==
    /\ thr[th].pc = "line38"
    /\ rate_limit_lock = th
    /\ rate_limit_storage' =
         [rate_limit_storage EXCEPT
            ![thr[th].ip] = Prune(rate_limit_storage[thr[th].ip], thr[th].current_time)]
    /\ thr' = [thr EXCEPT ![th].pc = "line42"]
    /\ UNCHANGED <<now, rl_log, rate_limit_lock, thr_calls, admitted>>
    /\ UNCHANGED <<watchVars, gridVars>>

\* main.py:42-43: return False, leaving the with block
Deny(th) ==
    /\ thr[th].pc = "line42"
    /\ rate_limit_lock = th
    /\ Len(rate_limit_storage[thr[th].ip]) >= max_requests
    /\ rate_limit_lock' = "free"
    /\ thr' = [thr EXCEPT ![th].pc = "idle"]
    /\ UNCHANGED <<now, rate_limit_storage, rl_log, thr_calls, admitted>>
    /\ UNCHANGED <<watchVars, gridVars>>

\* main.py:44-45: append, return True, leaving the with block
Record(th) ==
    /\ thr[th].pc = "line42"
    /\ rate_limit_lock = th
    /\ Len(rate_limit_storage[thr[th].ip]) < max_requests
    /\ rate_limit_storage' =
         [rate_limit_storage EXCEPT
            ![thr[th].ip] = Append(rate_limit_storage[thr[th].ip], thr[th].current_time)]
    /\ admitted' = Append(admitted, [ip |-> thr[th].ip,
                                     stamp |-> thr[th].current_time,
                                     at |-> now])
    /\ rate_limit_lock' = "free"
    /\ thr' = [thr EXCEPT ![th].pc = "idle"]
    /\ UNCHANGED <<now, rl_log, thr_calls>>
    /\ UNCHANGED <<watchVars, gridVars>>

(***************************************************************************)
(* URLs and pages                                                          *)
(*                                                                         *)
(* A URL is the sequence of its "/"-separated segments:                    *)
(* "https://ak.sv/watch/9" is <<"https:", "", "ak.sv", "watch", "9">> and   *)
(* "/watch/2" is <<"", "watch", "2">>.                                     *)
(***************************************************************************)
\* number of <source> tags on a page
MaxSources == 2

\* main.py:77
BASE_URL == <<"https:", "", "ak.sv">>

\* url.startswith("http")
StartsWithHttp(url) == Len(url) > 0 /\ url[1] \in {"http:", "https:"}

\* url.startswith("/")
StartsWithSlash(url) == Len(url) > 1 /\ url[1] = ""

\* main.py:121-124
fix_url(url) ==
    IF ~StartsWithHttp(url)
    THEN IF StartsWithSlash(url) THEN BASE_URL \o Tail(url) ELSE BASE_URL \o url
    ELSE url

\* urllib.parse.quote on one segment: the characters outside the safe set are
\* percent-encoded (of the segments used here only "go to" holds one)
QuoteSegment(seg) == IF seg = "go to" THEN "go%20to" ELSE seg

\* main.py:70, 409: quote(url, safe=":/%?=&")
quote(url) == [i \in DOMAIN url |-> QuoteSegment(url[i])]

\* the url parameter of /watch
WatchInputs == { <<"", "watch", "2">> }

\* <source> tags: the attributes in document order, each <<name, value>>
SourceTags ==
    { << <<"src", "a.mp4">>, <<"size", "720">> >>,
      << <<"size", "1080">>, <<"type", "video/mp4">>, <<"src", "b.mp4">> >>,
      << <<"src", "c.mp4">>, <<"size", "hd">> >> }

\* the attribute values \d+ matches
DigitStrings == {"480", "720", "1080"}

\* <a> tags: href and the text that follows the tag
AnchorWatch == [href |-> <<"https:", "", "ak.sv", "watch", "9">>, text |-> "Episode 9"]
AnchorClick == [href |-> <<"", "go", "5">>, text |-> "CLICK HERE"]
AnchorArabic == [href |-> <<"go to", "6">>, text |-> "idghat huna"]
AnchorPlain == [href |-> <<"", "download", "7">>, text |-> "Download"]

AnchorLists ==
    { <<>>, <<AnchorPlain>>, <<AnchorArabic>>,
      <<AnchorClick, AnchorWatch>>, <<AnchorPlain, AnchorClick>> }

SeqsUpTo(S, n) == UNION {[1..k -> S] : k \in 0..n}

\* a page, as far as the four patterns of main.py:95-101 can tell pages apart:
\* its <video> tag (none, id="player", another id), its <source> tags and its
\* <a> tags in document order
Pages ==
    [video : {"none", "player", "other"},
     sources : SeqsUpTo(SourceTags, MaxSources),
     anchors : AnchorLists]

EmptyPage == [video |-> "none", sources |-> <<>>, anchors |-> <<>>]

\* what scraper.get gives: an exception, or a response of any status
TransportError == [err |-> TRUE, status |-> 0, html |-> EmptyPage]
Responses ==
    {TransportError} \cup [err : {FALSE}, status : {200, 404}, html : Pages]

(***************************************************************************)
(* The patterns (main.py:95-101) and the extractors (main.py:361-383)      *)
(***************************************************************************)
\* main.py:101
VIDEO_TAG_CHECK(html) == html.video = "player"

NoGroup == ""

\* a plausible slip: only the src-before-size order is matched
SourcePatternSrcFirstOnly(tag) ==
    LET alt1 == {p \in (DOMAIN tag) \X (DOMAIN tag) :
                    /\ p[1] < p[2]
                    /\ tag[p[1]][1] = "src" /\ tag[p[1]][2] # ""
                    /\ tag[p[2]][1] = "size" /\ tag[p[2]][2] \in DigitStrings}
    IN  IF alt1 # {}
        THEN LET p == CHOOSE q \in alt1 : TRUE
             IN  [matched |-> TRUE, g1 |-> tag[p[1]][2], g2 |-> tag[p[2]][2],
                  g3 |-> NoGroup, g4 |-> NoGroup]
        ELSE [matched |-> FALSE, g1 |-> NoGroup, g2 |-> NoGroup,
              g3 |-> NoGroup, g4 |-> NoGroup]

\* main.py:95-98: VIDEO_SOURCE_PATTERN on one <source> tag. The first
\* alternative wants src="..." followed by size="digits" (groups 1, 2), the
\* second size="digits" followed by src="..." (groups 3, 4); a group that took
\* no part in the match is None
VIDEO_SOURCE_PATTERN(tag) ==
    LET alt1 == {p \in (DOMAIN tag) \X (DOMAIN tag) :
                    /\ p[1] < p[2]
                    /\ tag[p[1]][1] = "src" /\ tag[p[1]][2] # ""
                    /\ tag[p[2]][1] = "size" /\ tag[p[2]][2] \in DigitStrings}
        alt2 == {p \in (DOMAIN tag) \X (DOMAIN tag) :
                    /\ p[1] < p[2]
                    /\ tag[p[1]][1] = "size" /\ tag[p[1]][2] \in DigitStrings
                    /\ tag[p[2]][1] = "src" /\ tag[p[2]][2] # ""}
    IN  IF alt1 # {}
        THEN LET p == CHOOSE q \in alt1 : TRUE
             IN  [matched |-> TRUE, g1 |-> tag[p[1]][2], g2 |-> tag[p[2]][2],
                  g3 |-> NoGroup, g4 |-> NoGroup]
        ELSE IF alt2 # {}
        THEN LET p == CHOOSE q \in alt2 : TRUE
             IN  [matched |-> TRUE, g1 |-> NoGroup, g2 |-> NoGroup,
                  g3 |-> tag[p[1]][2], g4 |-> tag[p[2]][2]]
        ELSE [matched |-> FALSE, g1 |-> NoGroup, g2 |-> NoGroup,
              g3 |-> NoGroup, g4 |-> NoGroup]

\* Python's `a or b` on match groups
Or(a, b) == IF a # NoGroup THEN a ELSE b

RECURSIVE ExtractFrom(_)
\* main.py:364-372: the loop over finditer, in document order
ExtractFrom(tags) ==
    IF tags = <<>> THEN <<>>
    ELSE LET m    == VIDEO_SOURCE_PATTERN(Head(tags))
             src  == Or(m.g1, m.g4)
             size == Or(m.g2, m.g3)
         IN  IF m.matched /\ src # NoGroup /\ size # NoGroup
             THEN <<[quality |-> size \o "p", link |-> src, type |-> "mp4"]>>
                      \o ExtractFrom(Tail(tags))
             ELSE ExtractFrom(Tail(tags))

\* main.py:361-373
extract_videos_ultra_fast(html) == ExtractFrom(html.sources)

\* re.IGNORECASE on the anchor text
Lower(text) == IF text = "CLICK HERE" THEN "click here" ELSE text

\* the href holds "ak.sv/watch"
HasAkWatch(href) ==
    \E i \in 1..(Len(href) - 1) : href[i] = "ak.sv" /\ href[i + 1] = "watch"

\* main.py:99
REDIRECT_PATTERN_1(a) == HasAkWatch(a.href)

\* a plausible slip: any anchor with an href is taken as the redirect
RedirectPattern2AnyText(a) == a.href # <<>>

\* main.py:100: the text right after the tag is one of the two phrases
REDIRECT_PATTERN_2(a) ==
    a.href # <<>> /\ Lower(a.text) \in {"click here", "idghat huna"}

NoRedirect == [found |-> FALSE, url |-> <<>>]

\* re.search: the first of the anchors the pattern matches (hits: their indices)
FirstMatch(anchors, hits) ==
    IF hits = {} THEN NoRedirect
    ELSE [found |-> TRUE,
          url |-> anchors[CHOOSE i \in hits : \A j \in hits : i <= j].href]

\* main.py:375-383
find_redirect_ultra_fast(html) ==
    LET a  == html.anchors
        m1 == FirstMatch(a, {i \in 1..Len(a) : REDIRECT_PATTERN_1(a[i])})
    IN  IF m1.found THEN m1
        ELSE FirstMatch(a, {i \in 1..Len(a) : REDIRECT_PATTERN_2(a[i])})

(***************************************************************************)
(* watch_video (main.py:385-421)                                           *)
(***************************************************************************)
NoResult == [status |-> "none"]
NoResponse == [got |-> FALSE, status |-> 0, html |-> EmptyPage]

\* main.py:420-421
ServerError == [status |-> "http500", detail |-> "Error: <underlying message>"]

\* a plausible slip: the sources found on the first page are not returned
AfterFirstAlwaysSearches(url, html) ==
    LET redirect_url == find_redirect_ultra_fast(html)
    IN  IF ~redirect_url.found
        THEN [pc |-> "done", searched |-> TRUE, final_url |-> <<>>,
              result |-> [status |-> "failed", message |-> "Direct link not found"]]
        ELSE [pc |-> "fetch2", searched |-> TRUE,
              final_url |-> fix_url(redirect_url.url), result |-> NoResult]

\* main.py:396-408: what fetch_video does with the first page
AfterFirst(url, html) ==
    LET videos == IF VIDEO_TAG_CHECK(html) THEN extract_videos_ultra_fast(html) ELSE <<>>
    IN  IF VIDEO_TAG_CHECK(html) /\ videos # <<>>
        THEN [pc |-> "done", searched |-> FALSE, final_url |-> <<>>,
              result |-> [status |-> "success", original_url |-> url, videos |-> videos]]
        ELSE LET redirect_url == find_redirect_ultra_fast(html)
             IN  IF ~redirect_url.found
                 THEN [pc |-> "done", searched |-> TRUE, final_url |-> <<>>,
                       result |-> [status |-> "failed",
                                   message |-> "Direct link not found"]]
                 ELSE [pc |-> "fetch2", searched |-> TRUE,
                       final_url |-> fix_url(redirect_url.url), result |-> NoResult]

\* a plausible slip: a second page without sources is searched for a further hop
AfterSecondFollowsOn(final_url, html) ==
    LET videos == extract_videos_ultra_fast(html)
    IN  IF videos # <<>>
        THEN [pc |-> "done", final_url |-> final_url,
              result |-> [status |-> "success", original_url |-> final_url,
                          videos |-> videos]]
        ELSE IF find_redirect_ultra_fast(html).found
        THEN [pc |-> "fetch2", final_url |-> fix_url(find_redirect_ultra_fast(html).url),
              result |-> NoResult]
        ELSE [pc |-> "done", final_url |-> final_url,
              result |-> [status |-> "failed", message |-> "No video sources found"]]

\* main.py:412-416: what fetch_video does with the second page
AfterSecond(final_url, html) ==
    LET videos == extract_videos_ultra_fast(html)
    IN  IF videos # <<>>
        THEN [pc |-> "done", final_url |-> final_url,
              result |-> [status |-> "success", original_url |-> final_url,
                          videos |-> videos]]
        ELSE [pc |-> "done", final_url |-> final_url,
              result |-> [status |-> "failed", message |-> "No video sources found"]]

\* what a finished request leaves in the history of resolved urls
Resolved(result, url) ==
    IF result.status = "success" THEN w_resolved \cup {url} ELSE w_resolved

\* main.py:386-389: a request arrives; no lookup of an earlier resolution is made
watch_video(url) ==
    /\ w_pc \in {"idle", "done"}
    /\ w_pc' = "fetch1"
    /\ w_url' = fix_url(url)
    /\ w_cached' = (fix_url(url) \in w_resolved)
    /\ w_first' = NoResponse
    /\ w_final_url' = <<>>
    /\ w_referer' = quote(fix_url(url))
    /\ w_fetches' = <<>>
    /\ w_searched' = FALSE
    /\ w_result' = NoResult
    /\ UNCHANGED w_resolved
    /\ UNCHANGED <<rateVars, thrVars, gridVars>>

\* main.py:393-408 (and 420-421 when scraper.get raises)
FirstFetchGot(resp) ==
    /\ w_fetches' = Append(w_fetches, [url |-> w_url, referer |-> w_referer,
                                       err |-> resp.err, status |-> resp.status])
    /\ IF resp.err
       THEN /\ w_pc' = "done"
            /\ w_result' = ServerError
            /\ UNCHANGED <<w_first, w_final_url, w_referer, w_searched, w_resolved>>
       ELSE LET r == AfterFirst(w_url, resp.html)
            IN  /\ w_first' = [got |-> TRUE, status |-> resp.status, html |-> resp.html]
                /\ w_pc' = r.pc
                /\ w_searched' = r.searched
                /\ w_final_url' = r.final_url
                /\ w_referer' = IF r.pc = "fetch2" THEN quote(r.final_url) ELSE w_referer
                /\ w_result' = r.result
                /\ w_resolved' = Resolved(r.result, w_url)
    /\ UNCHANGED <<w_url, w_cached>>
    /\ UNCHANGED <<rateVars, thrVars, gridVars>>

\* main.py:410-416 (and 420-421 when scraper.get raises)
SecondFetchGot(resp) ==
    /\ w_fetches' = Append(w_fetches, [url |-> w_final_url, referer |-> w_referer,
                                       err |-> resp.err, status |-> resp.status])
    /\ IF resp.err
       THEN /\ w_pc' = "done"
            /\ w_result' = ServerError
            /\ UNCHANGED <<w_final_url, w_resolved>>
       ELSE LET r == AfterSecond(w_final_url, resp.html)
            IN  /\ w_pc' = r.pc
                /\ w_final_url' = r.final_url
                /\ w_result' = r.result
                /\ w_resolved' = Resolved(r.result, w_url)
    /\ UNCHANGED <<w_url, w_cached, w_first, w_searched, w_referer>>
    /\ UNCHANGED <<rateVars, thrVars, gridVars>>

\* the first scraper.get, for any behaviour of the upstream
FirstFetch == w_pc = "fetch1" /\ \E resp \in Responses : FirstFetchGot(resp)

\* the second scraper.get, for any behaviour of the upstream
SecondFetch == w_pc = "fetch2" /\ \E resp \in Responses : SecondFetchGot(resp)

(***************************************************************************)
(* Listing extraction: parse_grid and fetch_page (main.py:126-175)         *)
(***************************************************************************)
\* number of entry-box cards on a listing page
MaxCards == 2
\* number of listing requests in a run (fetch_page keeps no state between them)
MaxListCalls == 1

RECURSIVE StripThumb(_, _)
\* re.sub(r'/thumb/[^/]+', '', img_url) on the segments from index i on: a
\* segment "thumb" that follows a "/" goes, together with the non-empty segment
\* after it
StripThumb(url, i) ==
    IF i > Len(url) THEN <<>>
    ELSE IF i >= 2 /\ i < Len(url) /\ url[i] = "thumb" /\ url[i + 1] # ""
         THEN StripThumb(url, i + 2)
         ELSE <<url[i]>> \o StripThumb(url, i + 1)

\* main.py:126-128
get_high_quality_image(img_url) ==
    IF img_url = <<>> THEN <<>> ELSE StripThumb(img_url, 1)

\* str.strip() on the texts the cards hold
Strip(text) ==
    CASE text = " Movie A " -> "Movie A"
      [] text = " 8.1 " -> "8.1"
      [] OTHER -> text

ThumbUrl == <<"https:", "", "img.ak.sv", "thumb", "260x380", "uploads", "a.jpg">>
PlainUrl == <<"https:", "", "img.ak.sv", "uploads", "b.jpg">>

\* card.select_one("h3.entry-title a"): absent, an <a> without href, an <a href>
TitleTags ==
    { [present |-> FALSE, has_href |-> FALSE, href |-> <<>>, text |-> ""],
      [present |-> TRUE, has_href |-> FALSE, href |-> <<>>, text |-> "Movie B"],
      [present |-> TRUE, has_href |-> TRUE, href |-> <<"", "movie", "1">>,
       text |-> " Movie A "] }

\* card.select_one("div.entry-image img"): absent, or an <img> whose data-src
\* and src attributes may be missing (<<>>)
ImgTags ==
    { [present |-> FALSE, data_src |-> <<>>, src |-> <<>>],
      [present |-> TRUE, data_src |-> <<>>, src |-> <<>>],
      [present |-> TRUE, data_src |-> ThumbUrl, src |-> PlainUrl],
      [present |-> TRUE, data_src |-> <<>>, src |-> PlainUrl] }

\* an optional label span: absent, or present with its text
Labels(text) == { [present |-> FALSE, text |-> ""], [present |-> TRUE, text |-> text] }

Cards ==
    [title_tag : TitleTags, img_tag : ImgTags, rating : Labels(" 8.1 "),
     quality : Labels("WEB-DL"), year : Labels("2023")]

ListingPages == [cards : SeqsUpTo(Cards, MaxCards), rel_next : BOOLEAN]

EmptyListing == [cards |-> <<>>, rel_next |-> FALSE]

ListingError == [err |-> TRUE, status |-> 0, page |-> EmptyListing]
ListingResponses ==
    {ListingError} \cup [err : {FALSE}, status : {200, 404}, page : ListingPages]

\* `a or b` on attribute values
OrUrl(a, b) == IF a # <<>> THEN a ELSE b

\* main.py:144-151: the text of a label, or its default
LabelOr(label, default) == IF label.present THEN Strip(label.text) ELSE default

\* main.py:134-156 for one card: "skip" (continue), "raise" with the exception,
\* or the record appended
ParseCard(card) ==
    IF ~card.title_tag.present THEN [kind |-> "skip"]
    ELSE IF ~card.title_tag.has_href THEN [kind |-> "raise", exc |-> "KeyError: 'href'"]
    ELSE IF ~card.img_tag.present
         THEN [kind |-> "raise",
               exc |-> "AttributeError: 'NoneType' object has no attribute 'get'"]
    ELSE [kind |-> "record",
          record |-> [title |-> Strip(card.title_tag.text),
                      link |-> fix_url(card.title_tag.href),
                      image |-> get_high_quality_image(
                                    OrUrl(card.img_tag.data_src,
                                          OrUrl(card.img_tag.src, <<>>))),
                      rating |-> LabelOr(card.rating, "0.0"),
                      quality |-> LabelOr(card.quality, "N/A"),
                      year |-> LabelOr(card.year, "N/A")]]

RECURSIVE GridLoop(_, _)
\* main.py:133-157: the loop over the cards; an exception ends it
GridLoop(cards, results) ==
    IF cards = <<>> THEN [raised |-> FALSE, exc |-> "", results |-> results]
    ELSE LET c == ParseCard(Head(cards))
         IN  IF c.kind = "raise" THEN [raised |-> TRUE, exc |-> c.exc, results |-> <<>>]
             ELSE IF c.kind = "skip" THEN GridLoop(Tail(cards), results)
             ELSE GridLoop(Tail(cards), Append(results, c.record))

\* main.py:130-157
parse_grid(soup) == GridLoop(soup.cards, <<>>)

\* main.py:159-175: what fetch_page returns or raises for a response
FetchPageResult(resp) ==
    IF resp.err THEN [status |-> "http500", detail |-> "Error: <transport>"]
    ELSE IF resp.status # 200 THEN [status |-> "http500", detail |-> "Error: 404: Page not found"]
    ELSE LET data == parse_grid(resp.page)
         IN  IF data.raised
             THEN [status |-> "http500", detail |-> "Error: " \o data.exc]
             ELSE [status |-> "success", has_next |-> resp.page.rel_next,
                   count |-> Len(data.results), data |-> data.results]

\* main.py:159-175, for any response of the upstream
fetch_page ==
    /\ g_calls < MaxListCalls
    /\ \E resp \in ListingResponses :
          /\ g_resp' = resp
          /\ g_result' = FetchPageResult(resp)
    /\ g_calls' = g_calls + 1
    /\ UNCHANGED <<rateVars, thrVars, watchVars>>

(***************************************************************************)
(* Specifications                                                          *)
(***************************************************************************)
Init ==
    /\ now = 0
    /\ rate_limit_storage = [ip \in IPs |-> <<>>]
    /\ rl_log = <<>>
    /\ rate_limit_lock = "free"
    /\ thr = [th \in Threads |-> [pc |-> "idle", ip |-> "10.0.0.1", current_time |-> 0]]
    /\ thr_calls = 0
    /\ admitted = <<>>
    /\ w_pc = "idle"
    /\ w_url = <<>>
    /\ w_first = NoResponse
    /\ w_final_url = <<>>
    /\ w_referer = <<>>
    /\ w_fetches = <<>>
    /\ w_searched = FALSE
    /\ w_result = NoResult
    /\ w_resolved = {}
    /\ w_cached = FALSE
    /\ g_resp = ListingError      \* not read before the first call (g_calls = 0)
    /\ g_result = NoResult
    /\ g_calls = 0

NextRate ==
    \/ Tick
    \/ \E ip \in IPs : check_rate_limit(ip)

SpecRate == Init /\ [][NextRate]_vars

NextThreads ==
    \/ Tick
    \/ \E th \in Threads, ip \in IPs : Enter(th, ip)
    \/ \E th \in Threads : Acquire(th)
    \/ \E th \in Threads : PruneStep(th)
    \/ \E th \in Threads : Deny(th)
    \/ \E th \in Threads : Record(th)

SpecThreads == Init /\ [][NextThreads]_vars

NextWatch ==
    \/ \E url \in WatchInputs : watch_video(url)
    \/ FirstFetch
    \/ SecondFetch

SpecWatch == Init /\ [][NextWatch]_vars

NextGrid == fetch_page

SpecGrid == Init /\ [][NextGrid]_vars

(***************************************************************************)
(* Properties of the rate limiter                                          *)
(***************************************************************************)
CallsOf(ip) == SelectSeq(rl_log, LAMBDA c : c.ip = ip)

\* no admitted request of the identity lies in the window that ends at call i
EmptyAt(L, i) == \A j \in 1..(i - 1) : L[j].ok => L[i].t - L[j].t >= window

\* every recorded timestamp of the identity is at least `window` old at call c
AllElapsed(c) ==
    \A k \in 1..Len(c.before[c.ip]) : c.t - c.before[c.ip][k] >= window

\* C1: for one identity and calls at non-decreasing times: counted from a call
\* that finds an empty window, the calls made within `window` of it are allowed
\* exactly while they are among the first max_requests (so the next one is
\* denied); and a call made once `window` has elapsed since every recorded
\* request is allowed again.
C1_WindowAdmits ==
    \A ip \in IPs :
        LET L == CallsOf(ip)
        IN  \A i \in 1..Len(L) :
                /\ EmptyAt(L, i) =>
                     \A j \in i..Len(L) :
                         L[j].t - L[i].t < window =>
                             (L[j].ok <=> (j - i + 1 <= max_requests))
                /\ AllElapsed(L[i]) => L[i].ok

\* C1 witness: max_requests calls allowed, the next one in the same window
\* denied, and a later call after the window elapsed allowed again
C1_Witness ==
    \E ip \in IPs :
        LET L == CallsOf(ip)
        IN  \E i, a \in 1..Len(L) :
                LET d == i + max_requests
                IN  /\ EmptyAt(L, i)
                    /\ d < a
                    /\ L[d].t - L[i].t < window
                    /\ \A j \in i..(d - 1) : L[j].ok
                    /\ ~L[d].ok
                    /\ Len(L[a].before[ip]) > 0
                    /\ AllElapsed(L[a])
                    /\ L[a].ok

SeqMin(s) == CHOOSE x \in {s[k] : k \in 1..Len(s)} : \A k \in 1..Len(s) : x <= s[k]

\* C9: a denied call records nothing: its only effect is that the identity's
\* entries older than the window are gone, every other identity's entries are
\* unchanged; and denied attempts do not postpone re-admission: a call made when
\* the oldest recorded request has left the window is allowed.
C9_DeniedRecordsNothing ==
    \A i \in 1..Len(rl_log) :
        LET c == rl_log[i]
        IN  /\ ~c.ok =>
                /\ c.after[c.ip] =
                     SelectSeq(c.before[c.ip], LAMBDA r : c.t - r < window)
                /\ \A o \in IPs \ {c.ip} : c.after[o] = c.before[o]
            /\ (Len(c.before[c.ip]) > 0 /\ c.t - SeqMin(c.before[c.ip]) >= window)
                 => c.ok

\* C9 witness: denied attempts were made, and the identity is allowed as soon as
\* its oldest admitted request leaves the window
C9_Witness ==
    \E i, j \in 1..Len(rl_log) :
        /\ i < j
        /\ rl_log[i].ip = rl_log[j].ip
        /\ ~rl_log[i].ok
        /\ rl_log[i].after[rl_log[i].ip] = rl_log[i].before[rl_log[i].ip]
        /\ Len(rl_log[j].before[rl_log[j].ip]) = max_requests
        /\ rl_log[j].t - SeqMin(rl_log[j].before[rl_log[j].ip]) = window
        /\ rl_log[j].ok

AdmittedIn(ip, lo, field) ==
    {k \in 1..Len(admitted) :
        /\ admitted[k].ip = ip
        /\ admitted[k][field] >= lo
        /\ admitted[k][field] < lo + window}

\* C7: under any interleaving of threads in check_rate_limit, no identity has
\* more than max_requests recorded timestamps, and no more than max_requests
\* requests of one identity are admitted within one window (whether a request
\* is placed by the time it read or by the instant it was admitted).
C7_AdmissionBound ==
    \A ip \in IPs :
        /\ Len(rate_limit_storage[ip]) <= max_requests
        /\ \/ \A lo \in 0..MaxTime :
                 Cardinality(AdmittedIn(ip, lo, "stamp")) <= max_requests
           \/ \A lo \in 0..MaxTime :
                 Cardinality(AdmittedIn(ip, lo, "at")) <= max_requests

(***************************************************************************)
(* Properties of watch_video                                               *)
(***************************************************************************)
\* a <source> declaration with a src and a numeric size, in either order
IsValidDecl(tag) ==
    /\ \E i \in DOMAIN tag : tag[i][1] = "src" /\ tag[i][2] # ""
    /\ \E i \in DOMAIN tag : tag[i][1] = "size" /\ tag[i][2] \in DigitStrings

AttrOf(tag, name) == tag[CHOOSE i \in DOMAIN tag : tag[i][1] = name][2]

ValidDecls(html) == SelectSeq(html.sources, IsValidDecl)

\* an anchor either redirect pattern is about: an href into ak.sv/watch, or the
\* text "click here" (any case) or the Arabic phrase
IsRedirectAnchor(a) ==
    \/ \E i \in 1..(Len(a.href) - 1) : a.href[i] = "ak.sv" /\ a.href[i + 1] = "watch"
    \/ a.text \in {"Click here", "click here", "CLICK HERE", "idghat huna"}

\* C2: a request makes at most two fetches, whatever the pages hold, and a
\* fetch that raised is the last fetch of its request (no retry).
C2_AtMostTwoFetches ==
    /\ Len(w_fetches) <= 2
    /\ \A i \in 1..(Len(w_fetches) - 1) : ~w_fetches[i].err

\* C2 witness: a request that made its second fetch and ended
C2_Witness ==
    /\ w_pc = "done"
    /\ Len(w_fetches) = 2
    /\ w_result.status = "failed"

\* C3: a request for a url that an earlier request resolved with success (within
\* the TTL: no time passes in SpecWatch) is served from the cache and makes no
\* fetch.
C3_SecondCallNoFetch == w_cached => Len(w_fetches) = 0

\* C4: a first page with a native player and k >= 1 valid source declarations
\* gives success with exactly k entries in document order, each quality
\* "<size>p", link the declared src, type "mp4", after exactly one fetch.
C4_PlayerSources ==
    (w_first.got /\ w_first.html.video = "player" /\ Len(ValidDecls(w_first.html)) >= 1)
    => LET decls == ValidDecls(w_first.html)
       IN  /\ w_pc = "done"
           /\ w_result.status = "success"
           /\ w_result.videos =
                [i \in 1..Len(decls) |->
                    [quality |-> AttrOf(decls[i], "size") \o "p",
                     link |-> AttrOf(decls[i], "src"),
                     type |-> "mp4"]]
           /\ Len(w_fetches) = 1

\* C4 witness: a player page with two valid declarations, one in each attribute
\* order, and a redirect anchor that is not followed
C4_Witness ==
    /\ w_first.got
    /\ w_first.html.video = "player"
    /\ Len(ValidDecls(w_first.html)) = 2
    /\ w_first.html.anchors = <<AnchorClick, AnchorWatch>>
    /\ w_result.status = "success"
    /\ w_result.videos[1].quality = "1080p"
    /\ w_result.videos[2].quality = "720p"

\* C5: a first page with no native player and no anchor matching either
\* redirect pattern gives failed with the redirect-not-found reason after
\* exactly one fetch.
C5_NoRedirect ==
    (/\ w_first.got
     /\ w_first.html.video # "player"
     /\ \A i \in 1..Len(w_first.html.anchors) : ~IsRedirectAnchor(w_first.html.anchors[i]))
    => /\ w_pc = "done"
       /\ w_result = [status |-> "failed", message |-> "Direct link not found"]
       /\ Len(w_fetches) = 1

\* C5 witness: such a page that holds an anchor (matching neither pattern) and
\* source declarations
C5_Witness ==
    /\ w_first.got
    /\ w_first.html.video # "player"
    /\ w_first.html.anchors = <<AnchorPlain>>
    /\ Len(ValidDecls(w_first.html)) > 0
    /\ w_result.status = "failed"

\* C6: whenever a fetch of the request did not complete properly (a status
\* other than 200, or an exception), the request ends with the server error.
C6_FailedFetchIsServerError ==
    (w_pc = "done" /\ \E i \in 1..Len(w_fetches) :
                          w_fetches[i].err \/ w_fetches[i].status # 200)
    => w_result.status = "http500"

\* C8 as claimed: a first page with a native player is never searched for a
\* redirect and never leads to a second fetch.
C8_PlayerNeverRedirects ==
    (w_first.got /\ w_first.html.video = "player")
    => (~w_searched /\ Len(w_fetches) <= 1)

\* C8 as amended: the redirect search and the second fetch happen only when the
\* first page gave no sources from a native player: with a player and at least
\* one source the page is not searched and no second fetch is made; with no
\* player, or a player and zero sources, the page is searched for a redirect.
C8_RedirectOnlyWithoutSources ==
    w_first.got =>
        LET playable == w_first.html.video = "player"
                            /\ Len(ValidDecls(w_first.html)) >= 1
        IN  /\ playable => (~w_searched /\ Len(w_fetches) = 1)
            /\ ~playable => w_searched
            /\ Len(w_fetches) = 2 => w_searched

\* C8 witness: a player page without sources was searched and a second fetch made
C8_Witness ==
    /\ w_first.got
    /\ w_first.html.video = "player"
    /\ w_first.html.sources # <<>>
    /\ w_searched
    /\ Len(w_fetches) = 2

(***************************************************************************)
(* Properties of the listing extraction                                    *)
(***************************************************************************)
\* the record the listing contract gives for a card that has its title anchor
\* and link: every missing optional field at its default
ExpectedRecord(card) ==
    [title |-> Strip(card.title_tag.text),
     link |-> fix_url(card.title_tag.href),
     image |-> IF ~card.img_tag.present THEN <<>>
               ELSE get_high_quality_image(
                        IF card.img_tag.data_src # <<>> THEN card.img_tag.data_src
                        ELSE card.img_tag.src),
     rating |-> IF card.rating.present THEN Strip(card.rating.text) ELSE "0.0",
     quality |-> IF card.quality.present THEN Strip(card.quality.text) ELSE "N/A",
     year |-> IF card.year.present THEN Strip(card.year.text) ELSE "N/A"]

HasAnchor(card) == card.title_tag.present /\ card.title_tag.has_href

RECURSIVE ExpectedRecords(_)
ExpectedRecords(cards) ==
    IF cards = <<>> THEN <<>>
    ELSE IF HasAnchor(Head(cards))
         THEN <<ExpectedRecord(Head(cards))>> \o ExpectedRecords(Tail(cards))
         ELSE ExpectedRecords(Tail(cards))

\* C10: for any listing page that was fetched, the extraction does not end in
\* an error: a card without its title anchor or link is dropped alone, a card
\* without an optional field yields a record with that field's default, and
\* count is the number of records.
C10_PartialCardsTolerated ==
    (g_calls > 0 /\ ~g_resp.err /\ g_resp.status = 200)
    => /\ g_result.status = "success"
       /\ g_result.data = ExpectedRecords(g_resp.page.cards)
       /\ g_result.count = Len(g_result.data)

====
